---- MODULE Spec2Model ----
(***************************************************************************)
(* Task permissions, task mutations and the task list query of the task    *)
(* management backend (TaskController and the /tasks routes).              *)
(*                                                                         *)
(* update and remove are modelled in the steps their awaits cut them into  *)
(* (the read up to the permission check, then the write), so requests      *)
(* in flight together interleave; inflight holds each request's frame.     *)
(*                                                                         *)
(* The specifications share the variables:                                 *)
(*   Spec        the /tasks routes POST, PUT, DELETE over the task store   *)
(*   SpecPerm    canEditTask / canDeleteTask applied to drawn inputs       *)
(*   SpecList, SpecSort, SpecPaging, SpecPaths                             *)
(*               GET /tasks applied to a drawn store and a drawn query     *)
(*   SpecFail    the routes with a repository call that throws             *)
(*   SpecDto     validateDto before create and update                      *)
(*   SpecCascade PUT and DELETE over tasks that have comments              *)
(*   SpecConc, SpecRace                                                    *)
(*               overlapping PUT (and DELETE) requests on a stored task    *)
(***************************************************************************)
EXTENDS Integers, Sequences, FiniteSets, TLC

VARIABLES tasks, nextId, resp, comments, inflight

vars == <<tasks, nextId, resp, comments, inflight>>

(***************************************************************************)
(* Bounds                                                                  *)
(***************************************************************************)
MaxTasks == 1

MaxRows == 2

MaxPage == 2

MaxLimit == 2

MaxComments == 2

MaxRequests == 2

(***************************************************************************)
(* Optional values: an absent (undefined) field or a NULL column is None.  *)
(***************************************************************************)
None == [some |-> FALSE]

Some(x) == [some |-> TRUE, v |-> x]

Opt(S) == {None} \cup {Some(x) : x \in S}

(***************************************************************************)
(* Value domains.  A string is a sequence of one-character strings.        *)
(***************************************************************************)
Users == {"u1", "u2", "u3"}

Roles == {"admin", "manager", "user", "guest"}

Statuses == {"todo", "in_progress", "done"}

Titles == {<<"b">>, <<"b", "a">>}

Descriptions == {<<"a">>}

TaskIds == 1 .. MaxTasks

NoTask == [exists |-> FALSE]

NoResp == [op |-> "none", code |-> 0]

\* No request is between its read and its save.
NoRequests == << >>

(***************************************************************************)
(* Permission helpers (task.controller.ts 18-45).  user is the token       *)
(* payload [userId, roles]; task is a stored task.                         *)
(***************************************************************************)
hasRole(user, role) == role \in user.roles

isOwner(user, task) == task.owner = user.userId

canEditTask_noManager(user, task) ==
    IF hasRole(user, "admin") THEN TRUE ELSE isOwner(user, task)

canEditTask_assigneeMayEdit(user, task) ==
    IF hasRole(user, "admin") \/ hasRole(user, "manager")
    THEN TRUE
    ELSE isOwner(user, task) \/ user.userId \in task.assignees

canEditTask(user, task) ==
    IF hasRole(user, "admin") \/ hasRole(user, "manager")
    THEN TRUE
    ELSE isOwner(user, task)

canDeleteTask_anyOwner(user, task) ==
    IF hasRole(user, "admin") THEN TRUE ELSE isOwner(user, task)

canDeleteTask_noOwnerCheck(user, task) ==
    IF hasRole(user, "admin")
    THEN TRUE
    ELSE hasRole(user, "manager") \/ hasRole(user, "user")

canDeleteTask(user, task) ==
    IF hasRole(user, "admin")
    THEN TRUE
    ELSE IF hasRole(user, "manager") \/ hasRole(user, "user")
         THEN isOwner(user, task)
         ELSE FALSE

(***************************************************************************)
(* Request inputs                                                          *)
(***************************************************************************)
Tokens ==
    { [userId |-> "u1", roles |-> {"admin"}],
      [userId |-> "u2", roles |-> {"manager"}],
      [userId |-> "u2", roles |-> {"user"}],
      [userId |-> "u3", roles |-> {"user"}] }

AllTokens == [userId : Users, roles : SUBSET Roles]

Uuids == Users \cup {"ghost"}

\* A JSON null sent as the value of status.
JsonNull == "null"

ValidBodies ==
    [title : Opt(Titles), description : Opt(Descriptions),
     status : Opt({"done"}), assigneeIds : Opt({{}, {"u3"}})]

EmptyBody ==
    [title |-> None, description |-> None, status |-> None,
     assigneeIds |-> None]

InvalidBodies ==
    { [EmptyBody EXCEPT !.title = Some(<< >>)],
      [EmptyBody EXCEPT !.title = Some(<<"b">>), !.status = Some("bogus")],
      [EmptyBody EXCEPT !.title = Some(<<"b">>),
                        !.assigneeIds = Some({"u3", "bad"})] }

NullStatusBody ==
    [EmptyBody EXCEPT !.title = Some(<<"b">>), !.status = Some(JsonNull)]

Bodies ==
    ValidBodies \cup InvalidBodies
        \cup {[EmptyBody EXCEPT !.title = Some(<<"b">>),
                                !.assigneeIds = Some({"u3", "ghost"})],
              NullStatusBody}

(***************************************************************************)
(* DTO validation (task.dto.ts, validateDto).  @IsOptional skips the other *)
(* decorators of a field whose value is undefined or null.                 *)
(***************************************************************************)
TitleMaxLength == 200

DescriptionMaxLength == 2000

ValidTitle(t) == Len(t) >= 1 /\ Len(t) <= TitleMaxLength

ValidDescription(d) == Len(d) <= DescriptionMaxLength

ValidStatus_any(s) == TRUE

ValidStatus(s) == s \in {"todo", "in_progress", "done"}

ValidAssigneeIds(ids) == \A i \in ids : i \in Uuids

ValidOptionalFields(body) ==
    /\ body.description.some => ValidDescription(body.description.v)
    /\ (body.status.some /\ body.status.v # JsonNull) =>
           ValidStatus(body.status.v)
    /\ body.assigneeIds.some => ValidAssigneeIds(body.assigneeIds.v)

CreateTaskDto(body) ==
    /\ body.title.some
    /\ ValidTitle(body.title.v)
    /\ ValidOptionalFields(body)

UpdateTaskDto_noTitleCheck(body) == ValidOptionalFields(body)

UpdateTaskDto(body) ==
    /\ body.title.some => ValidTitle(body.title.v)
    /\ ValidOptionalFields(body)

(***************************************************************************)
(* Middleware and repositories                                             *)
(***************************************************************************)
authenticate(actor) == actor.some

authorize(user, allowed) == \E r \in allowed : hasRole(user, r)

findOne(id) == IF id \in TaskIds THEN tasks[id] ELSE NoTask

findUser(id) == id \in Users

findBy(ids) == ids \cap Users

OrElse(opt, default) == IF opt.some THEN opt.v ELSE default

Reply(op, code, id, actor) ==
    [op |-> op, code |-> code, id |-> id, actor |-> actor]

\* The status column of the Task entity takes no NULL.
columnsAccept(task) == task.status # JsonNull

\* taskRepository.save inside the handler's try block: the row is written,
\* or the database rejects it and the catch block answers 500.
save(op, code, id, user, task, next) ==
    IF ~columnsAccept(task)
    THEN /\ resp' = Reply(op, 500, IF op = "create" THEN 0 ELSE id, Some(user))
         /\ UNCHANGED <<tasks, nextId, comments>>
    ELSE /\ tasks' = [tasks EXCEPT ![id] = task]
         /\ nextId' = next
         /\ resp' = Reply(op, code, id, Some(user))
         /\ UNCHANGED comments

(***************************************************************************)
(* TaskController.create behind POST /tasks.  authenticate has set the     *)
(* user, so the handler's own 401 (no ownerId) is the middleware's.        *)
(***************************************************************************)
Task(title, description, status, owner, assignees, createdAt) ==
    [exists |-> TRUE, title |-> title, description |-> description,
     status |-> status, owner |-> owner, assignees |-> assignees,
     createdAt |-> createdAt]

create(user, body) ==
    LET status == OrElse(body.status, "todo")
        assigneeIds == OrElse(body.assigneeIds, {})
        assignees == IF assigneeIds # {} THEN findBy(assigneeIds) ELSE {}
        task == Task(body.title.v, body.description, status, user.userId,
                     assignees, nextId)
    IN  IF ~findUser(user.userId)
        THEN /\ resp' = Reply("create", 404, 0, Some(user))
             /\ UNCHANGED <<tasks, nextId, comments>>
        ELSE save("create", 201, nextId, user, task, nextId + 1)

PostTask_noAuthorize(actor, body) ==
    /\ nextId <= MaxTasks
    /\ IF ~authenticate(actor)
       THEN /\ resp' = Reply("create", 401, 0, actor)
            /\ UNCHANGED <<tasks, nextId, comments>>
       ELSE IF ~CreateTaskDto(body)
       THEN /\ resp' = Reply("create", 400, 0, actor)
            /\ UNCHANGED <<tasks, nextId, comments>>
       ELSE create(actor.v, body)

PostTask(actor, body) ==
    /\ nextId <= MaxTasks
    /\ IF ~authenticate(actor)
       THEN /\ resp' = Reply("create", 401, 0, actor)
            /\ UNCHANGED <<tasks, nextId, comments>>
       ELSE IF ~authorize(actor.v, {"admin", "manager"})
       THEN /\ resp' = Reply("create", 403, 0, actor)
            /\ UNCHANGED <<tasks, nextId, comments>>
       ELSE IF ~CreateTaskDto(body)
       THEN /\ resp' = Reply("create", 400, 0, actor)
            /\ UNCHANGED <<tasks, nextId, comments>>
       ELSE create(actor.v, body)

(***************************************************************************)
(* Requests in flight.  update and remove await findOne and later save or  *)
(* remove; between the two awaits other requests run.  inflight[r] is the  *)
(* frame of the handler in slot r: the request (op, user, id, body), the   *)
(* entity findOne returned, and call, the repository call that throws in   *)
(* this request ("none": no call throws).  A slot is freed when its        *)
(* request is answered; a kept slot serves one request and keeps the frame *)
(* with the response code and the position of its save among the saves.    *)
(* What a handler does before its first access to the task table and       *)
(* after its last is taken together with that access.                      *)
(***************************************************************************)
Requests == 1 .. MaxRequests

Idle ==
    [pc |-> "idle", op |-> "none", user |-> None, id |-> 0,
     body |-> EmptyBody, loaded |-> NoTask, call |-> "none", code |-> 0,
     savedAt |-> 0, kept |-> FALSE]

Kept == [Idle EXCEPT !.kept = TRUE]

Request(r, op, actor, id, body, call) ==
    [inflight[r] EXCEPT !.op = op, !.user = actor, !.id = id, !.body = body,
                        !.call = call]

\* A request starts in the first free slot, or goes on in the slot it has.
Slot(r) ==
    \/ inflight[r].pc = "loaded"
    \/ /\ inflight[r].pc = "idle"
       /\ \A q \in 1 .. (r - 1) : inflight[q].pc # "idle"

Answer(r, frame, code) ==
    /\ inflight' = [inflight EXCEPT ![r] =
                       IF frame.kept
                       THEN [frame EXCEPT !.pc = "done", !.code = code]
                       ELSE Idle]
    /\ resp' = Reply(frame.op, code, frame.id, frame.user)

Load(r, frame, task) ==
    /\ inflight' = [inflight EXCEPT ![r] = [frame EXCEPT !.pc = "loaded",
                                                         !.loaded = task]]
    /\ UNCHANGED resp

SavesSoFar == Cardinality({r \in Requests : inflight[r].savedAt > 0})

\* The catch block of update and remove: 500, nothing written.
catchIn_partialSave(r, frame) ==
    /\ Answer(r, frame, 500)
    /\ tasks' = IF tasks[frame.id].exists
                THEN [tasks EXCEPT ![frame.id].title =
                                       OrElse(frame.body.title, @)]
                ELSE tasks
    /\ UNCHANGED <<nextId, comments>>

catchIn(r, frame) ==
    /\ Answer(r, frame, 500)
    /\ UNCHANGED <<tasks, nextId, comments>>

(***************************************************************************)
(* TaskController.update behind PUT /tasks/:id.  The route always carries  *)
(* an id, so the handler's 400 "Task id is required" cannot arise.         *)
(* assigneeIds defaults to the empty array when the body has none, and the *)
(* empty array passes the handler's `if (assigneeIds)`.                    *)
(***************************************************************************)
\* The assignee set of a patch that leaves an absent assigneeIds alone.
updateAssignees_whenSent(task, body) ==
    IF body.assigneeIds.some
    THEN (IF body.assigneeIds.v # {} THEN findBy(body.assigneeIds.v) ELSE {})
    ELSE task.assignees

updateAssignees(task, body) ==
    LET assigneeIds == OrElse(body.assigneeIds, {})
    IN  IF assigneeIds # {} THEN findBy(assigneeIds) ELSE {}

updateFields(task, body) ==
    [task EXCEPT !.title = OrElse(body.title, task.title),
                 !.description =
                     IF body.description.some THEN body.description
                     ELSE task.description,
                 !.status = OrElse(body.status, task.status),
                 !.assignees = updateAssignees(task, body)]

\* update from await findOne to the permission check (lines 207-216).
updateRead_noPermissionCheck(r, frame) ==
    LET task == findOne(frame.id)
    IN  /\ UNCHANGED <<tasks, nextId, comments>>
        /\ IF frame.call = "findOne" THEN Answer(r, frame, 500)
           ELSE IF ~task.exists THEN Answer(r, frame, 404)
           ELSE Load(r, frame, task)

updateRead_deniesBeforeLookup(r, frame) ==
    LET task == findOne(frame.id)
        user == frame.user.v
    IN  /\ UNCHANGED <<tasks, nextId, comments>>
        /\ IF frame.call = "findOne" THEN Answer(r, frame, 500)
           ELSE IF ~hasRole(user, "admin") /\ ~hasRole(user, "manager")
                   /\ (~task.exists \/ ~isOwner(user, task))
           THEN Answer(r, frame, 403)
           ELSE IF ~task.exists THEN Answer(r, frame, 404)
           ELSE Load(r, frame, task)

updateRead(r, frame) ==
    LET task == findOne(frame.id)
    IN  /\ UNCHANGED <<tasks, nextId, comments>>
        /\ IF frame.call = "findOne" THEN Answer(r, frame, 500)
           ELSE IF ~task.exists THEN Answer(r, frame, 404)
           ELSE IF ~canEditTask(frame.user.v, task) THEN Answer(r, frame, 403)
           ELSE Load(r, frame, task)

\* update from the field assignments to the response (lines 218-232).
\* save writes the entity the request holds: it updates the row of that id
\* and inserts the row when there is none.
updateSave_takesOwnership(r) ==
    LET frame == inflight[r]
        entity == [updateFields(frame.loaded, frame.body)
                      EXCEPT !.owner = frame.user.v.userId]
    IN  /\ tasks' = [tasks EXCEPT ![frame.id] = entity]
        /\ Answer(r, [frame EXCEPT !.savedAt = SavesSoFar + 1], 200)
        /\ UNCHANGED <<nextId, comments>>

\* A save that writes the patch onto the row as it is now.
updateSave_ontoCurrentRow(r) ==
    LET frame == inflight[r]
        entity == updateFields(tasks[frame.id], frame.body)
    IN  /\ tasks' = [tasks EXCEPT ![frame.id] = entity]
        /\ Answer(r, [frame EXCEPT !.savedAt = SavesSoFar + 1], 200)
        /\ UNCHANGED <<nextId, comments>>

updateSave(r) ==
    LET frame == inflight[r]
        entity == updateFields(frame.loaded, frame.body)
    IN  IF \/ (frame.call = "findBy"
                 /\ OrElse(frame.body.assigneeIds, {}) # {})
           \/ frame.call = "save"
           \/ ~columnsAccept(entity)
        THEN catchIn(r, frame)
        ELSE /\ tasks' = [tasks EXCEPT ![frame.id] = entity]
             /\ Answer(r, [frame EXCEPT !.savedAt = SavesSoFar + 1], 200)
             /\ UNCHANGED <<nextId, comments>>

\* One step of update for the request of frame in slot r.
update(r, frame) ==
    IF inflight[r].pc = "idle"
    THEN updateRead(r, frame)
    ELSE /\ inflight[r].pc = "loaded"
         /\ inflight[r] = frame
         /\ updateSave(r)

PutTask(r, actor, id, body, call) ==
    LET frame == Request(r, "update", actor, id, body, call)
    IN  IF inflight[r].pc = "idle" /\ ~authenticate(actor)
        THEN /\ Answer(r, frame, 401)
             /\ UNCHANGED <<tasks, nextId, comments>>
        ELSE IF inflight[r].pc = "idle" /\ ~UpdateTaskDto(body)
        THEN /\ Answer(r, frame, 400)
             /\ UNCHANGED <<tasks, nextId, comments>>
        ELSE update(r, frame)

(***************************************************************************)
(* TaskController.remove behind DELETE /tasks/:id                          *)
(***************************************************************************)
\* The rows of task_comment left by DELETE FROM task WHERE id = ...: the
\* foreign key of TaskComment.task is declared ON DELETE CASCADE.
onDeleteCascade_none(id) == comments

onDeleteCascade(id) == {c \in comments : c.task # id}

\* remove from await findOne to the permission check (lines 247-256).
removeRead_noPermissionCheck(r, frame) ==
    LET task == findOne(frame.id)
    IN  /\ UNCHANGED <<tasks, nextId, comments>>
        /\ IF frame.call = "findOne" THEN Answer(r, frame, 500)
           ELSE IF ~task.exists THEN Answer(r, frame, 404)
           ELSE Load(r, frame, task)

removeRead(r, frame) ==
    LET task == findOne(frame.id)
    IN  /\ UNCHANGED <<tasks, nextId, comments>>
        /\ IF frame.call = "findOne" THEN Answer(r, frame, 500)
           ELSE IF ~task.exists THEN Answer(r, frame, 404)
           ELSE IF ~canDeleteTask(frame.user.v, task)
           THEN Answer(r, frame, 403)
           ELSE Load(r, frame, task)

\* remove from await taskRepository.remove to the response (lines 258-262):
\* the row of the entity's id is deleted, if it is still there.
removeCommit(r) ==
    LET frame == inflight[r]
    IN  IF frame.call = "remove"
        THEN catchIn(r, frame)
        ELSE /\ tasks' = [tasks EXCEPT ![frame.id] = NoTask]
             /\ comments' = onDeleteCascade(frame.id)
             /\ Answer(r, frame, 204)
             /\ UNCHANGED nextId

\* One step of remove for the request of frame in slot r.
remove(r, frame) ==
    IF inflight[r].pc = "idle"
    THEN removeRead(r, frame)
    ELSE /\ inflight[r].pc = "loaded"
         /\ inflight[r] = frame
         /\ removeCommit(r)

DeleteTask(r, actor, id, call) ==
    LET frame == Request(r, "remove", actor, id, EmptyBody, call)
    IN  IF inflight[r].pc = "idle" /\ ~authenticate(actor)
        THEN /\ Answer(r, frame, 401)
             /\ UNCHANGED <<tasks, nextId, comments>>
        ELSE remove(r, frame)

(***************************************************************************)
(* Spec: the mutating /tasks routes over an initially empty store, up to   *)
(* MaxRequests PUT and DELETE requests in flight together.  create reads   *)
(* users only and touches the task table in its save alone, so a POST is   *)
(* one step.                                                               *)
(***************************************************************************)
\* The bodies sent in Spec: patches of a title, of a status and of the
\* assignees, a body with no field and a status outside the enumeration.
SpecBodies ==
    { EmptyBody,
      [EmptyBody EXCEPT !.title = Some(<<"b", "a">>)],
      [EmptyBody EXCEPT !.status = Some("done")],
      [EmptyBody EXCEPT !.title = Some(<<"b">>),
                        !.assigneeIds = Some({"u3"})],
      [EmptyBody EXCEPT !.title = Some(<<"b">>), !.status = Some("bogus")] }

Init ==
    /\ tasks = [i \in TaskIds |-> NoTask]
    /\ nextId = 1
    /\ resp = NoResp
    /\ comments = {}
    /\ inflight = [r \in Requests |-> Idle]

Post ==
    /\ \E actor \in Opt(Tokens), body \in SpecBodies :
           PostTask(actor, body)
    /\ UNCHANGED inflight

Put ==
    \E r \in Requests, actor \in Opt(Tokens), id \in TaskIds,
       body \in SpecBodies :
        /\ Slot(r)
        /\ PutTask(r, actor, id, body, "none")

Delete ==
    \E r \in Requests, actor \in Opt(Tokens), id \in TaskIds :
        /\ Slot(r)
        /\ DeleteTask(r, actor, id, "none")

Next == Post \/ Put \/ Delete

Spec == Init /\ [][Next]_vars

(***************************************************************************)
(* SpecFail: the task routes when a persistence call throws.  Each handler *)
(* runs inside try / catch; call names the repository call that throws if  *)
(* the handler gets to it.  save and remove run in one transaction, so a   *)
(* call that throws has written nothing.                                   *)
(***************************************************************************)
catch(op, id, user) ==
    /\ resp' = Reply(op, 500, id, Some(user))
    /\ UNCHANGED <<tasks, nextId, comments>>

createFailing(user, body, call) ==
    IF call = "findOne"
    THEN catch("create", 0, user)
    ELSE IF ~findUser(user.userId)
    THEN create(user, body)
    ELSE IF call = "findBy" /\ OrElse(body.assigneeIds, {}) # {}
    THEN catch("create", 0, user)
    ELSE IF call = "save"
    THEN catch("create", 0, user)
    ELSE create(user, body)

listFailing(user) == catch("list", 0, user)

FailBodies ==
    { [EmptyBody EXCEPT !.title = Some(<<"b", "a">>)],
      [EmptyBody EXCEPT !.title = Some(<<"b">>),
                        !.assigneeIds = Some({"u3"})] }

\* The requests in which no call throws, with the same bodies and the body
\* whose save the database refuses.
PostSome ==
    /\ \E actor \in Opt(Tokens), body \in FailBodies \cup {NullStatusBody} :
           PostTask(actor, body)
    /\ UNCHANGED inflight

PutSome ==
    \E r \in Requests, actor \in Opt(Tokens), id \in TaskIds,
       body \in FailBodies \cup {NullStatusBody} :
        /\ Slot(r)
        /\ PutTask(r, actor, id, body, "none")

PostFailing ==
    /\ nextId <= MaxTasks
    /\ \E user \in Tokens, body \in FailBodies,
          call \in {"findOne", "findBy", "save"} :
           /\ authorize(user, {"admin", "manager"})
           /\ CreateTaskDto(body)
           /\ createFailing(user, body, call)
    /\ UNCHANGED inflight

PutFailing ==
    \E r \in Requests, user \in Tokens, id \in TaskIds, body \in FailBodies,
       call \in {"findOne", "findBy", "save"} :
        /\ Slot(r)
        /\ PutTask(r, Some(user), id, body, call)

DeleteFailing ==
    \E r \in Requests, user \in Tokens, id \in TaskIds,
       call \in {"findOne", "remove"} :
        /\ Slot(r)
        /\ DeleteTask(r, Some(user), id, call)

GetFailing ==
    /\ \E user \in Tokens :
           listFailing(user)
    /\ UNCHANGED inflight

NextFail ==
    \/ PostSome
    \/ PutSome
    \/ Delete
    \/ PostFailing
    \/ PutFailing
    \/ DeleteFailing
    \/ GetFailing

SpecFail == Init /\ [][NextFail]_vars

(***************************************************************************)
(* TaskController.list behind GET /tasks                                   *)
(***************************************************************************)
DefaultPage == 1

DefaultLimit == 10

Min(a, b) == IF a < b THEN a ELSE b

ExistingIds == {i \in DOMAIN tasks : tasks[i].exists}

\* SQL LIKE: % matches any run of characters, _ any one character.
RECURSIVE Like(_, _)
Like(pattern, str) ==
    IF pattern = << >> THEN str = << >>
    ELSE IF Head(pattern) = "%"
    THEN Like(Tail(pattern), str) \/ (str # << >> /\ Like(pattern, Tail(str)))
    ELSE /\ str # << >>
         /\ (Head(pattern) = "_" \/ Head(pattern) = Head(str))
         /\ Like(Tail(pattern), Tail(str))

searchTerm(search) == <<"%">> \o search \o <<"%">>

\* The rows of task LEFT JOIN assignees: one per assignee, or one with a
\* NULL assignee for a task that has none.  (The joins of owner and
\* attachments add no condition; the count and the entities are taken per
\* distinct task id.)
JoinedRows ==
    UNION { IF tasks[i].assignees = {}
            THEN {[id |-> i, assignee |-> None]}
            ELSE {[id |-> i, assignee |-> Some(a)] : a \in tasks[i].assignees}
          : i \in ExistingIds }

titleLike(row, q) == Like(searchTerm(q.search), tasks[row.id].title)

descriptionLike(row, q) ==
    /\ tasks[row.id].description.some
    /\ Like(searchTerm(q.search), tasks[row.id].description.v)

statusIn(row, q) == tasks[row.id].status \in q.status.v

assigneeIs(row, q) == row.assignee.some /\ row.assignee.v = q.assigneeId.v

Term(op, val) == [op |-> op, val |-> val]

\* The same text with the search condition in brackets.
whereClauses_bracketed(row, q) ==
    IF q.search # << >>
    THEN <<Term("", titleLike(row, q) \/ descriptionLike(row, q))>>
         \o (IF q.status.some THEN <<Term("AND", statusIn(row, q))>> ELSE << >>)
         \o (IF q.assigneeId.some THEN <<Term("AND", assigneeIs(row, q))>>
             ELSE << >>)
    ELSE (IF q.status.some THEN <<Term("", statusIn(row, q))>> ELSE << >>)
         \o (IF q.assigneeId.some THEN <<Term("AND", assigneeIs(row, q))>>
             ELSE << >>)

\* The WHERE text the query builder assembles: the where() string followed
\* by each andWhere() string behind "AND", with no parentheses added.
whereClauses(row, q) ==
    IF q.search # << >>
    THEN <<Term("", titleLike(row, q)), Term("OR", descriptionLike(row, q))>>
         \o (IF q.status.some THEN <<Term("AND", statusIn(row, q))>> ELSE << >>)
         \o (IF q.assigneeId.some THEN <<Term("AND", assigneeIs(row, q))>>
             ELSE << >>)
    ELSE (IF q.status.some THEN <<Term("", statusIn(row, q))>> ELSE << >>)
         \o (IF q.assigneeId.some THEN <<Term("AND", assigneeIs(row, q))>>
             ELSE << >>)

\* SQL evaluation of t1 op t2 op t3 ...: AND binds tighter than OR, so the
\* text is a disjunction of maximal AND-runs.  No WHERE text selects all.
EvalSql(terms) ==
    \/ terms = << >>
    \/ \E i \in 1 .. Len(terms) :
          /\ (i = 1 \/ terms[i].op = "OR")
          /\ \A j \in i .. Len(terms) :
                 (\A k \in (i + 1) .. j : terms[k].op = "AND") => terms[j].val

Selected(q) == {row \in JoinedRows : EvalSql(whereClauses(row, q))}

\* getManyAndCount, count part: COUNT(DISTINCT task.id) over the selection.
countQuery(selected) == Cardinality({row.id : row \in selected})

CharRank(c) == CASE c = "a" -> 1 [] c = "b" -> 2 [] OTHER -> 0

RECURSIVE StrLeq(_, _)
StrLeq(s, t) ==
    IF s = << >> THEN TRUE
    ELSE IF t = << >> THEN FALSE
    ELSE IF Head(s) = Head(t) THEN StrLeq(Tail(s), Tail(t))
    ELSE CharRank(Head(s)) < CharRank(Head(t))

order_anyCase(q) ==
    IF q.sortOrder \in {Some("ASC"), Some("asc")} THEN "ASC" ELSE "DESC"

order(q) == IF q.sortOrder = Some("ASC") THEN "ASC" ELSE "DESC"

sortField(q) == IF q.sortBy = Some("title") THEN "title" ELSE "createdAt"

KeyLeq(i, j, q) ==
    IF sortField(q) = "title"
    THEN StrLeq(tasks[i].title, tasks[j].title)
    ELSE tasks[i].createdAt <= tasks[j].createdAt

InOrder(i, j, q) == IF order(q) = "ASC" THEN KeyLeq(i, j, q) ELSE KeyLeq(j, i, q)

\* Every ordering of the ids that ORDER BY allows (rows equal on the sort
\* key come in an order the database chooses).
Orderings(ids, q) ==
    {s \in [1 .. Cardinality(ids) -> ids] :
        /\ \A a, b \in DOMAIN s : a # b => s[a] # s[b]
        /\ \A a, b \in DOMAIN s : a < b => InOrder(s[a], s[b], q)}

pageNum(q) == OrElse(q.page, DefaultPage)

limitNum(q) == OrElse(q.limit, DefaultLimit)

offset_clamped(q) ==
    (IF pageNum(q) < 1 THEN 0 ELSE pageNum(q) - 1) * limitNum(q)

offset(q) == (pageNum(q) - 1) * limitNum(q)

\* skip(offset).take(limit) over the ordered distinct ids.
skipTake(sorted, q) ==
    SubSeq(sorted, offset(q) + 1, Min(Len(sorted), offset(q) + limitNum(q)))

\* The entities of the page: each task with the assignee rows that the
\* WHERE text selected.
loadEntity(i, selected) ==
    [id |-> i, title |-> tasks[i].title,
     description |-> tasks[i].description, status |-> tasks[i].status,
     owner |-> tasks[i].owner, createdAt |-> tasks[i].createdAt,
     assignees |-> {row.assignee.v :
                       row \in {r \in selected : r.id = i /\ r.assignee.some}}]

ceil(total, limit) == (total + limit - 1) \div limit

\* Math.ceil(total / limitNum) as JSON: a division by zero gives Infinity or
\* NaN, which JSON.stringify writes as null; a negative limit gives the
\* negated floor.
totalPages(total, limit) ==
    IF limit > 0 THEN ceil(total, limit)
    ELSE IF limit = 0 THEN JsonNull
    ELSE 0 - (total \div (0 - limit))

\* What the store makes of skip and take.  The query builder writes LIMIT
\* and OFFSET for a non-zero take and skip only.  PostgreSQL (the README's
\* first option) refuses a negative LIMIT or OFFSET; SQLite (its second)
\* reads a negative OFFSET as zero and a negative LIMIT as no limit, so a
\* positive take still bounds the page.  A take of zero gives no row or no
\* limit, depending on the query builder.
storeRejects(q) == offset(q) < 0 \/ limitNum(q) < 0

pages(sorted, q) ==
    LET first == IF offset(q) > 0 THEN Min(offset(q), Len(sorted)) ELSE 0
    IN  IF offset(q) >= 0 /\ limitNum(q) > 0
        THEN {skipTake(sorted, q)}
        ELSE IF limitNum(q) > 0
        THEN {SubSeq(sorted, 1, Min(Len(sorted), limitNum(q)))}
        ELSE {SubSeq(sorted, first + 1, Len(sorted))}
                \cup (IF limitNum(q) = 0 THEN {<< >>} ELSE {})

list(q) ==
    \/ /\ storeRejects(q)
       /\ resp' = [op |-> "list", code |-> 500, query |-> q,
                   skip |-> offset(q), take |-> limitNum(q)]
       /\ UNCHANGED <<tasks, nextId, comments>>
    \/ LET selected == Selected(q)
           total == countQuery(selected)
       IN  \E sorted \in Orderings({row.id : row \in selected}, q) :
             \E ids \in pages(sorted, q) :
                /\ resp' = [op |-> "list", code |-> 200, query |-> q,
                            skip |-> offset(q), take |-> limitNum(q),
                            tasks |-> [k \in DOMAIN ids |->
                                          loadEntity(ids[k], selected)],
                            page |-> pageNum(q), limit |-> limitNum(q),
                            total |-> total,
                            totalPages |-> totalPages(total, limitNum(q))]
                /\ UNCHANGED <<tasks, nextId, comments>>

GetTasks(actor, q) ==
    IF ~authenticate(actor)
    THEN /\ resp' = [op |-> "list", code |-> 401, query |-> q]
         /\ UNCHANGED <<tasks, nextId, comments>>
    ELSE list(q)

(***************************************************************************)
(* SpecList: GET /tasks over every drawn store and query                   *)
(***************************************************************************)
ListedTasks ==
    [exists : {TRUE}, title : Titles, description : Opt(Descriptions),
     status : {"todo", "done"}, owner : {"u1"},
     assignees : {{}, {"u2"}, {"u2", "u3"}}, createdAt : {0}]

SeveralTasks ==
    {t \in ListedTasks : ~t.description.some /\ t.assignees # {"u2"}}

PageInputs == {None} \cup {Some(p) : p \in 2 .. MaxPage}

LimitInputs == Opt(1 .. MaxLimit)

Queries ==
    [search : {<< >>, <<"a">>},
     status : Opt({{"done"}, {"todo", "in_progress"}}),
     assigneeId : Opt({"u3"}),
     page : PageInputs, limit : LimitInputs,
     sortBy : Opt({"title"}), sortOrder : Opt({"ASC"})]

\* A store of one task takes every drawn combination of fields; a store of
\* several tasks varies their title, status and assignees.  Rows are
\* created in id order.
InitList ==
    /\ \E n \in 0 .. MaxRows :
           \E rows \in [1 .. n -> IF n = 1 THEN ListedTasks ELSE SeveralTasks] :
               tasks = [i \in 1 .. MaxRows |->
                           IF i <= n THEN [rows[i] EXCEPT !.createdAt = i]
                           ELSE NoTask]
    /\ nextId = MaxRows + 1
    /\ resp = NoResp
    /\ comments = {}
    /\ inflight = NoRequests

NoQuery ==
    [search |-> << >>, status |-> None, assigneeId |-> None, page |-> None,
     limit |-> None, sortBy |-> None, sortOrder |-> None]

\* One request per drawn store: list leaves the store as it is.
Get ==
    /\ resp = NoResp
    /\ \E q \in Queries : GetTasks(Some(CHOOSE t \in Tokens : TRUE), q)
    /\ UNCHANGED inflight

GetUnauthenticated ==
    /\ resp = NoResp
    /\ GetTasks(None, NoQuery)
    /\ UNCHANGED inflight

NextList == Get \/ GetUnauthenticated

SpecList == InitList /\ [][NextList]_vars

(***************************************************************************)
(* SpecPerm: the permission helpers applied to every drawn actor and task  *)
(***************************************************************************)
DrawnTasks ==
    [exists : {TRUE}, title : Titles, description : {None},
     status : Statuses, owner : Users, assignees : SUBSET Users,
     createdAt : {1}]

InitPerm ==
    /\ \E t \in DrawnTasks :
           tasks = [i \in TaskIds |-> IF i = 1 THEN t ELSE NoTask]
    /\ nextId = 2
    /\ resp = NoResp
    /\ comments = {}
    /\ inflight = NoRequests

Evaluate(user) ==
    /\ resp' = [op |-> "perm", code |-> 0, id |-> 1, actor |-> Some(user),
                canEdit |-> canEditTask(user, tasks[1]),
                canDelete |-> canDeleteTask(user, tasks[1])]
    /\ UNCHANGED <<tasks, nextId, comments>>

NextPerm ==
    /\ resp = NoResp
    /\ \E user \in AllTokens : Evaluate(user)
    /\ UNCHANGED inflight

SpecPerm == InitPerm /\ [][NextPerm]_vars

(***************************************************************************)
(* SpecUi: TaskList (TaskList.tsx) rendering a task for the logged-in      *)
(* user; the user of useAuth carries the id and the roles of the token.    *)
(***************************************************************************)
TaskList_hasRole(roles, role) == roles.some /\ role \in roles.v

isOwnedByCurrentUser(user, task) == user.some /\ task.owner = user.v.userId

isAdmin(user) ==
    TaskList_hasRole(IF user.some THEN Some(user.v.roles) ELSE None, "admin")

isManager(user) ==
    TaskList_hasRole(IF user.some THEN Some(user.v.roles) ELSE None, "manager")

canEdit(user, task) ==
    user.some
        /\ (isAdmin(user) \/ isManager(user)
               \/ isOwnedByCurrentUser(user, task))

canDelete(user, task) ==
    user.some
        /\ (isAdmin(user)
               \/ (isOwnedByCurrentUser(user, task)
                      /\ (isManager(user) \/ ~isManager(user))))

\* TasksPage hands onEdit and onDelete to TaskList when a user is logged in.
Render(user) ==
    /\ resp' = [op |-> "render", code |-> 0, id |-> 1, actor |-> user,
                showsEdit |-> user.some /\ canEdit(user, tasks[1]),
                showsDelete |-> user.some /\ canDelete(user, tasks[1])]
    /\ UNCHANGED <<tasks, nextId, comments, inflight>>

NextUi == resp = NoResp /\ \E user \in Opt(AllTokens) : Render(user)

SpecUi == InitPerm /\ [][NextUi]_vars

(***************************************************************************)
(* SpecDto: one POST or PUT, with every drawn body, on a drawn store       *)
(***************************************************************************)
LongTitle == [i \in 1 .. (TitleMaxLength + 1) |-> "b"]

LongDescription == [i \in 1 .. (DescriptionMaxLength + 1) |-> "a"]

DtoBodies ==
    Bodies \cup
        { [EmptyBody EXCEPT !.title = Some(LongTitle)],
          [EmptyBody EXCEPT !.title = Some(<<"b">>),
                            !.description = Some(LongDescription)],
          [EmptyBody EXCEPT !.description = Some(LongDescription)],
          [EmptyBody EXCEPT !.status = Some("bogus")],
          [EmptyBody EXCEPT !.assigneeIds = Some({"bad"})] }

InitDto ==
    /\ \/ tasks = [i \in TaskIds |-> NoTask] /\ nextId = 1
       \/ \E t \in DrawnTasks :
              /\ tasks = [i \in TaskIds |-> IF i = 1 THEN t ELSE NoTask]
              /\ nextId = 2
    /\ resp = NoResp
    /\ comments = {}
    /\ inflight = [r \in Requests |-> Idle]

PostDto ==
    /\ resp = NoResp
    /\ \E actor \in Opt(Tokens), body \in DtoBodies : PostTask(actor, body)
    /\ UNCHANGED inflight

PutDto ==
    /\ resp = NoResp
    /\ \E r \in Requests, actor \in Opt(Tokens), id \in TaskIds,
          body \in DtoBodies :
           /\ Slot(r)
           /\ \A q \in Requests \ {r} : inflight[q].pc = "idle"
           /\ PutTask(r, actor, id, body, "none")

NextDto == PostDto \/ PutDto

SpecDto == InitDto /\ [][NextDto]_vars

(***************************************************************************)
(* SpecCascade: PUT and DELETE over a store whose tasks carry comments.    *)
(* No route writes a comment; the rows are drawn, each referencing a task  *)
(* of the store as the foreign key of TaskComment.task requires.           *)
(***************************************************************************)
CommentIds == 1 .. MaxComments

TaskComment(id, task, author) == [id |-> id, task |-> task, author |-> author]

CommentedTasks ==
    {t \in DrawnTasks :
        t.title = <<"b">> /\ t.status = "todo" /\ t.assignees = {}}

InitCascade ==
    /\ \E rows \in [TaskIds -> CommentedTasks],
          on \in [CommentIds -> TaskIds \cup {0}] :
           /\ \A i \in TaskIds : \E k \in CommentIds : on[k] = i
           /\ tasks = [i \in TaskIds |-> [rows[i] EXCEPT !.createdAt = i]]
           /\ comments =
                  {TaskComment(k, on[k], "u2") :
                      k \in {c \in CommentIds : on[c] # 0}}
    /\ nextId = MaxTasks + 1
    /\ resp = NoResp
    /\ inflight = [r \in Requests |-> Idle]

PutCascade ==
    \E r \in Requests, actor \in Opt(Tokens), id \in TaskIds,
       body \in FailBodies :
        /\ Slot(r)
        /\ PutTask(r, actor, id, body, "none")

NextCascade == Delete \/ PutCascade

SpecCascade == InitCascade /\ [][NextCascade]_vars

(***************************************************************************)
(* SpecConc: PUT /tasks/:id requests that overlap on a stored task.  Each  *)
(* slot serves one request and keeps its frame.                            *)
(***************************************************************************)
ConcTask(i) == Task(<<"b">>, None, "todo", "u2", {"u3"}, i)

ConcBodies ==
    { [EmptyBody EXCEPT !.title = Some(<<"b", "a">>)],
      [EmptyBody EXCEPT !.status = Some("done")],
      [EmptyBody EXCEPT !.description = Some(<<"a">>)] }

InitConc ==
    /\ tasks = [i \in TaskIds |-> ConcTask(i)]
    /\ nextId = MaxTasks + 1
    /\ resp = NoResp
    /\ comments = {}
    /\ inflight = [r \in Requests |-> Kept]

\* A PUT up to the permission check, and a PUT from there on.
Read ==
    \E r \in Requests, actor \in Opt(Tokens), id \in TaskIds,
       body \in ConcBodies :
        /\ inflight[r].pc = "idle"
        /\ PutTask(r, actor, id, body, "none")

Write ==
    \E r \in Requests :
        /\ inflight[r].pc = "loaded"
        /\ inflight[r].op = "update"
        /\ update(r, inflight[r])

NextConc == Read \/ Write

SpecConc == InitConc /\ [][NextConc]_vars

(***************************************************************************)
(* Claims about the permission helpers (SpecPerm)                          *)
(***************************************************************************)
Evaluated == resp.op = "perm"

ActorRoles == resp.actor.v.roles

ActorOwns == tasks[1].owner = resp.actor.v.userId

\* C1: canEditTask is true exactly when the role set contains admin or
\* manager, or the task's owner id equals the actor id.
C1_CanEditExact ==
    Evaluated =>
        (resp.canEdit <=>
            ("admin" \in ActorRoles \/ "manager" \in ActorRoles \/ ActorOwns))

C1_Witness ==
    /\ Evaluated
    /\ ActorRoles = {"user"}
    /\ ~ActorOwns
    /\ ~resp.canEdit

\* C2: canDeleteTask is true exactly when the role set contains admin, or it
\* contains manager or user and the actor owns the task; an actor holding
\* none of the three roles is denied even for a task they own.
C2_CanDeleteExact ==
    Evaluated =>
        (resp.canDelete <=>
            \/ "admin" \in ActorRoles
            \/ /\ ("manager" \in ActorRoles \/ "user" \in ActorRoles)
               /\ ActorOwns)

C2_Witness ==
    /\ Evaluated
    /\ ActorRoles \cap {"admin", "manager", "user"} = {}
    /\ ActorOwns
    /\ ~resp.canDelete

\* C3: delete is never more permissive than edit (canDeleteTask implies
\* canEditTask), and role set {manager} on a task the actor does not own can
\* edit but cannot delete.
C3_DeleteImpliesEdit ==
    Evaluated =>
        /\ resp.canDelete => resp.canEdit
        /\ (ActorRoles = {"manager"} /\ ~ActorOwns) =>
               (resp.canEdit /\ ~resp.canDelete)

C3_Witness ==
    /\ Evaluated
    /\ ActorRoles = {"manager"}
    /\ ~ActorOwns
    /\ resp.canEdit
    /\ ~resp.canDelete

(***************************************************************************)
(* Claims about update and remove (Spec)                                   *)
(***************************************************************************)
\* C4: an update that reaches the controller for an existing task the actor
\* may not edit answers 403 and leaves the whole store as it was.
C4_DeniedUpdateChangesNothing ==
    [][(/\ resp'.op = "update"
        /\ resp'.code \notin {400, 401}
        /\ tasks[resp'.id].exists
        /\ ~canEditTask(resp'.actor.v, tasks[resp'.id]))
       => (resp'.code = 403 /\ tasks' = tasks /\ nextId' = nextId)]_vars

C4_Witness ==
    /\ resp.op = "update"
    /\ resp.code = 403
    /\ tasks[resp.id].exists
    /\ resp.actor.v.roles = {"user"}
    /\ tasks[resp.id].owner # resp.actor.v.userId
    /\ tasks[resp.id].assignees # {}

\* C5: a task leaves the store only through a remove request for that task
\* whose actor satisfies canDeleteTask, answered 204 with the task absent; a
\* remove request whose actor fails canDeleteTask answers 403 and leaves the
\* store unchanged.
C5_RemoveOnlyWhenPermitted ==
    [][/\ \A id \in TaskIds :
              (tasks[id].exists /\ ~tasks'[id].exists) =>
                  /\ resp'.op = "remove"
                  /\ resp'.id = id
                  /\ resp'.code = 204
                  /\ canDeleteTask(resp'.actor.v, tasks[id])
       /\ (resp'.op = "remove" /\ resp'.code = 204) => ~tasks'[resp'.id].exists
       /\ (/\ resp'.op = "remove"
           /\ resp'.code # 401
           /\ tasks[resp'.id].exists
           /\ ~canDeleteTask(resp'.actor.v, tasks[resp'.id]))
          => (resp'.code = 403 /\ tasks' = tasks)]_vars

C5_Witness ==
    /\ resp.op = "remove"
    /\ resp.code = 204
    /\ ~tasks[resp.id].exists
    /\ resp.actor.v.roles = {"user"}

\* C6: a permitted update changes only the fields present in the request
\* body; a field that was not sent, the assignee set included, keeps its
\* stored value.
C6_OnlySentFieldsChange ==
    [][\A r \in Requests :
           (/\ inflight[r].pc = "loaded"
            /\ inflight[r].op = "update"
            /\ inflight[r].loaded = tasks[inflight[r].id]
            /\ inflight'[r] # inflight[r]
            /\ resp'.code = 200)
           => LET old == tasks[inflight[r].id]
                  new == tasks'[inflight[r].id]
                  body == inflight[r].body
              IN  /\ ~body.title.some => new.title = old.title
                  /\ ~body.description.some =>
                         new.description = old.description
                  /\ ~body.status.some => new.status = old.status
                  /\ ~body.assigneeIds.some => new.assignees = old.assignees]_vars

(***************************************************************************)
(* Claims about list (SpecList)                                            *)
(***************************************************************************)
Listed == resp.op = "list" /\ resp.code = 200

RECURSIVE Contains(_, _)
Contains(str, sub) ==
    \/ (Len(sub) <= Len(str) /\ SubSeq(str, 1, Len(sub)) = sub)
    \/ (str # << >> /\ Contains(Tail(str), sub))

\* The filters as the specification states them, each on its own.
MatchesSearch(i, q) ==
    \/ q.search = << >>
    \/ Contains(tasks[i].title, q.search)
    \/ (tasks[i].description.some /\ Contains(tasks[i].description.v, q.search))

MatchesStatus(i, q) == q.status.some => tasks[i].status \in q.status.v

MatchesAssignee(i, q) ==
    q.assigneeId.some => q.assigneeId.v \in tasks[i].assignees

MatchingAll(q) ==
    {i \in ExistingIds :
        MatchesSearch(i, q) /\ MatchesStatus(i, q) /\ MatchesAssignee(i, q)}

ReturnedIds == {resp.tasks[k].id : k \in DOMAIN resp.tasks}

\* C7: with a non-empty search together with a status and/or assignee
\* filter, a task is returned and counted in total only if it matches the
\* search AND the status filter AND the assignee filter.
C7_FiltersConjunctive ==
    (Listed /\ resp.query.search # << >>
        /\ (resp.query.status.some \/ resp.query.assigneeId.some))
    => /\ ReturnedIds \subseteq MatchingAll(resp.query)
       /\ resp.total <= Cardinality(MatchingAll(resp.query))

\* C8: with a status filter every returned task has a status of the given
\* set and total counts every task with such a status that passes the other
\* filters; without one no task is excluded on status.
C8_StatusFilter ==
    Listed =>
        /\ \A k \in DOMAIN resp.tasks : MatchesStatus(resp.tasks[k].id, resp.query)
        /\ resp.total = Cardinality(MatchingAll(resp.query))

\* C9: with assigneeId = X the tasks returned are exactly those (passing
\* the other filters) whose assignee set contains X, each once, and total
\* counts each once; without assigneeId no task is excluded on assignees.
C9_AssigneeFilter ==
    Listed =>
        /\ ReturnedIds \subseteq MatchingAll(resp.query)
        /\ \A k, l \in DOMAIN resp.tasks :
               resp.tasks[k].id = resp.tasks[l].id => k = l
        /\ resp.total = Cardinality(MatchingAll(resp.query))
        /\ Len(resp.tasks) =
               Min(resp.limit, Cardinality(MatchingAll(resp.query))
                                   - Min(Cardinality(MatchingAll(resp.query)),
                                         (resp.page - 1) * resp.limit))

\* C10: total is the number of tasks matching the filters before slicing,
\* whatever page and limit are, and totalPages is ceil(total / limit).
C10_TotalAndTotalPages ==
    Listed =>
        /\ resp.total = Cardinality(MatchingAll(resp.query))
        /\ resp.totalPages * resp.limit >= resp.total
        /\ (resp.totalPages - 1) * resp.limit < resp.total

Max(a, b) == IF a > b THEN a ELSE b

ReturnedSeq == [k \in DOMAIN resp.tasks |-> resp.tasks[k].id]

\* C11: the page is the items at positions [(page-1)*limit, page*limit) of
\* the sorted sequence of the tasks matching the filters, so it holds
\* min(limit, max(0, total - (page-1)*limit)) tasks; a page beyond the last
\* one is answered 200 with no task.
C11_PageIsSlice ==
    Listed =>
        LET matching == MatchingAll(resp.query)
            first == (resp.page - 1) * resp.limit
        IN  /\ \E sorted \in Orderings(matching, resp.query) :
                   ReturnedSeq =
                       SubSeq(sorted, first + 1,
                              Min(Len(sorted), first + resp.limit))
            /\ Len(resp.tasks) =
                   Min(resp.limit, Max(0, resp.total - first))
            /\ first >= resp.total => resp.tasks = << >>

(***************************************************************************)
(* Claims about the stored tasks over all request sequences (Spec)         *)
(***************************************************************************)
\* C12: a stored task keeps the owner it was given at creation: no request,
\* and in particular no update, permitted or denied, changes the owner of a
\* task that stays in the store.
C12_OwnerImmutable ==
    [][\A id \in TaskIds :
           (tasks[id].exists /\ tasks'[id].exists) =>
               tasks'[id].owner = tasks[id].owner]_vars

C12_Witness ==
    /\ resp.op = "update"
    /\ resp.code = 200
    /\ tasks[resp.id].exists
    /\ tasks[resp.id].owner # resp.actor.v.userId

\* C14: every task in the store was created by a POST /tasks answered 201
\* whose actor held admin or manager, and is owned by that actor.  Stated
\* step by step: a task under a new id is stored only by such a POST, which
\* uses an id no task had before; a stored task keeps its owner and its
\* creation stamp; an entity a request holds was read from the store; and a
\* row that returns to the store outside a POST (the save of an update that
\* had read it before it was removed) is that entity, with the owner and the
\* creation stamp its POST gave it.  A POST from an actor holding neither
\* role answers 403 and creates no task.
C14_CreatedByAdminOrManager ==
    [][/\ \A id \in TaskIds :
            /\ (~tasks[id].exists /\ tasks'[id].exists) =>
                  \/ /\ resp'.op = "create"
                     /\ resp'.code = 201
                     /\ resp'.id = id
                     /\ id = nextId
                     /\ nextId' = nextId + 1
                     /\ resp'.actor.v.roles \cap {"admin", "manager"} # {}
                     /\ tasks'[id].owner = resp'.actor.v.userId
                  \/ /\ id < nextId
                     /\ nextId' = nextId
                     /\ \E r \in Requests :
                          /\ inflight[r].pc = "loaded"
                          /\ inflight[r].id = id
                          /\ inflight[r].loaded.exists
                          /\ tasks'[id].owner = inflight[r].loaded.owner
                          /\ tasks'[id].createdAt = inflight[r].loaded.createdAt
            /\ (tasks[id].exists /\ tasks'[id].exists) =>
                  /\ tasks'[id].owner = tasks[id].owner
                  /\ tasks'[id].createdAt = tasks[id].createdAt
       /\ \A r \in Requests :
            (inflight[r].pc # "loaded" /\ inflight'[r].pc = "loaded") =>
                  /\ tasks[inflight'[r].id].exists
                  /\ inflight'[r].loaded = tasks[inflight'[r].id]
       /\ nextId' >= nextId
       /\ (/\ resp'.op = "create"
           /\ resp'.actor.some
           /\ resp'.actor.v.roles \cap {"admin", "manager"} = {})
          => (resp'.code = 403 /\ tasks' = tasks /\ nextId' = nextId)]_vars

\* A task stored by the POST of a manager, owned by that manager.
C14_Witness ==
    /\ resp.op = "create"
    /\ resp.code = 201
    /\ resp.actor.v.roles = {"manager"}
    /\ tasks[resp.id].exists
    /\ tasks[resp.id].owner = resp.actor.v.userId

\* C15: update and remove answer with the first check that fails and leave
\* the store as it was: no actor context gives 401, then a task id that is
\* not in the store gives 404 whatever the actor's roles, and only then a
\* failed permission check gives 403.  (On PUT the body validation, answered
\* 400, stands between the first and the second check.)  A request that is
\* answered in the step in which it arrives leaves the slots as they were.
C15_CheckOrder ==
    [][(resp'.op \in {"update", "remove"} /\ inflight' = inflight) =>
          LET task == tasks[resp'.id]
              permitted ==
                  IF resp'.op = "update"
                  THEN canEditTask(resp'.actor.v, task)
                  ELSE canDeleteTask(resp'.actor.v, task)
          IN  /\ ~resp'.actor.some => resp'.code = 401
              /\ (resp'.actor.some /\ resp'.code # 400 /\ ~task.exists)
                    => resp'.code = 404
              /\ (resp'.actor.some /\ resp'.code # 400 /\ task.exists
                     /\ ~permitted)
                    => resp'.code = 403
              /\ resp'.code \in {401, 404, 403} =>
                    (tasks' = tasks /\ nextId' = nextId)
              /\ resp'.code = 401 => ~resp'.actor.some
              /\ resp'.code = 404 => ~task.exists
              /\ resp'.code = 403 => (task.exists /\ ~permitted)]_vars

C15_Witness ==
    /\ resp.op = "update"
    /\ resp.code = 404
    /\ resp.actor.v.roles = {"user"}
    /\ ~tasks[resp.id].exists

\* C13: every stored task's status is one of todo, in_progress, done: a
\* body with another status value is rejected before the controller, and
\* create gives a task whose body has no status the status todo.
C13_StatusEnumerated ==
    \A id \in TaskIds :
        tasks[id].exists => tasks[id].status \in {"todo", "in_progress", "done"}

C13_Witness ==
    /\ resp.op = "create"
    /\ resp.code = 201
    /\ tasks[resp.id].exists
    /\ tasks[resp.id].status = "todo"

(***************************************************************************)
(* Claims about request validation (SpecDto)                               *)
(***************************************************************************)
\* The malformed bodies the claim lists: a status string outside the
\* enumeration, an empty title, a title of more than 200 or a description
\* of more than 2000 characters, an assignee id that is no UUID.
Malformed(body) ==
    \/ (body.status.some
          /\ body.status.v \notin {"todo", "in_progress", "done", JsonNull})
    \/ (body.title.some /\ Len(body.title.v) = 0)
    \/ (body.title.some /\ Len(body.title.v) > 200)
    \/ (body.description.some /\ Len(body.description.v) > 2000)
    \/ (body.assigneeIds.some /\ "bad" \in body.assigneeIds.v)

\* C16: a POST (by an actor allowed to create) or a PUT whose body is
\* malformed, or a POST without title, is answered 400 and leaves the store
\* as it was; on PUT this holds whether or not the task exists and whether
\* or not the actor may edit it.
C16_InvalidBodyRejected ==
    [][\A body \in DtoBodies :
           /\ (/\ resp'.op = "create"
               /\ resp'.actor.some
               /\ resp'.code # 403
               /\ (Malformed(body) \/ ~body.title.some)
               /\ PostTask(resp'.actor, body))
              => (resp'.code = 400 /\ tasks' = tasks /\ nextId' = nextId)
           /\ (/\ resp'.op = "update"
               /\ resp'.actor.some
               /\ Malformed(body)
               /\ \E r \in Requests :
                      /\ inflight[r].pc = "idle"
                      /\ PutTask(r, resp'.actor, resp'.id, body, "none"))
              => (resp'.code = 400 /\ tasks' = tasks /\ nextId' = nextId)]_vars

C16_Witness ==
    /\ resp.op = "update"
    /\ resp.code = 400
    /\ resp.actor.v.roles = {"user"}
    /\ tasks[resp.id].exists
    /\ tasks[resp.id].owner # resp.actor.v.userId

(***************************************************************************)
(* Claims about failing persistence calls (SpecFail)                       *)
(***************************************************************************)
\* C17: a request in which a persistence call throws is answered 500 and
\* leaves the store as it was before the request; in particular a save that
\* throws in a permitted update leaves the stored task unchanged.
C17_FailureLeavesStore ==
    [][/\ resp'.code = 500 => (tasks' = tasks /\ nextId' = nextId)
       /\ \A r \in Requests :
              (/\ inflight[r].pc = "loaded"
               /\ inflight[r].op = "update"
               /\ inflight[r].call = "save"
               /\ inflight'[r] # inflight[r])
              => (resp'.op = "update" /\ resp'.code = 500 /\ tasks' = tasks)
       /\ \A body \in FailBodies :
              (/\ resp'.op = "create"
               /\ resp'.actor.some
               /\ createFailing(resp'.actor.v, body, "findOne"))
              => (resp'.code = 500 /\ tasks' = tasks)
       /\ (/\ resp'.op = "remove"
           /\ resp'.actor.some
           /\ \E r \in Requests :
                  /\ inflight[r].pc = "idle"
                  /\ DeleteTask(r, resp'.actor, resp'.id, "findOne"))
          => (resp'.code = 500 /\ tasks' = tasks)]_vars

C17_Witness ==
    /\ resp.op = "update"
    /\ resp.code = 500
    /\ tasks[resp.id].exists
    /\ resp.actor.v.roles = {"manager"}
    /\ canEditTask(resp.actor.v, tasks[resp.id])

(***************************************************************************)
(* Claims about comments (SpecCascade)                                     *)
(***************************************************************************)
\* C18: every stored comment references a task that is in the store: once a
\* task is removed no comment referencing it remains.
C18_NoOrphanComment == \A c \in comments : tasks[c.task].exists

C18_Witness ==
    /\ resp.op = "remove"
    /\ resp.code = 204
    /\ ~tasks[resp.id].exists
    /\ \A c \in comments : c.task # resp.id

(***************************************************************************)
(* Claims about overlapping updates (SpecConc)                             *)
(***************************************************************************)
Savers(id) ==
    {r \in Requests : inflight[r].savedAt > 0 /\ inflight[r].id = id}

LastSaver(id) ==
    CHOOSE r \in Savers(id) :
        \A q \in Savers(id) : inflight[q].savedAt <= inflight[r].savedAt

\* C19: of the permitted updates of a task that overlap, none is rejected
\* (each one that has answered, answered 200), and the stored task is the
\* entity saved by the one whose save came last: the task that request
\* read, with the fields of its body.
C19_LastWriterWins ==
    /\ \A r \in Requests :
           (inflight[r].pc = "done" /\ inflight[r].loaded.exists) =>
               (inflight[r].code = 200 /\ inflight[r].savedAt > 0)
    /\ \A id \in TaskIds :
           Savers(id) # {} =>
               tasks[id] = updateFields(inflight[LastSaver(id)].loaded,
                                        inflight[LastSaver(id)].body)

C19_Witness ==
    \E r1, r2 \in Requests :
        /\ inflight[r1].code = 200
        /\ inflight[r2].code = 200
        /\ inflight[r1].id = inflight[r2].id
        /\ inflight[r1].savedAt < inflight[r2].savedAt
        /\ inflight[r1].loaded = inflight[r2].loaded
        /\ inflight[r1].body.title.some
        /\ inflight[r2].body.status.some
        /\ tasks[inflight[r2].id].title = <<"b">>
        /\ tasks[inflight[r2].id].status = "done"

(***************************************************************************)
(* Claims about the frontend (SpecUi)                                      *)
(***************************************************************************)
\* C20: for every logged-in user and every task, TaskList shows the Edit
\* button exactly when canEditTask allows that user, and the Delete button
\* exactly when canDeleteTask allows that user.
C20_FrontendMirrorsBackend ==
    (resp.op = "render" /\ resp.actor.some) =>
        /\ resp.showsEdit <=> canEditTask(resp.actor.v, tasks[1])
        /\ resp.showsDelete <=> canDeleteTask(resp.actor.v, tasks[1])

(***************************************************************************)
(* Claims about what the permission helpers read (SpecPerm)                *)
(***************************************************************************)
\* C21: the answers of canEditTask and canDeleteTask depend on the actor's
\* roles, the actor's id and the task's owner only: every task with the
\* same owner, whatever its title, description, status and assignees, gets
\* the same answers for the same actor, and an assignee who is neither the
\* owner nor an admin or manager may neither edit nor delete.
C21_OnlyRolesAndOwner ==
    Evaluated =>
        /\ \A t \in DrawnTasks, d \in Opt(Descriptions) :
               t.owner = tasks[1].owner =>
                   LET other == [t EXCEPT !.description = d]
                   IN  /\ canEditTask(resp.actor.v, other) = resp.canEdit
                       /\ canDeleteTask(resp.actor.v, other) = resp.canDelete
        /\ (/\ resp.actor.v.userId \in tasks[1].assignees
            /\ ~ActorOwns
            /\ ActorRoles \cap {"admin", "manager"} = {})
           => (~resp.canEdit /\ ~resp.canDelete)

C21_Witness ==
    /\ Evaluated
    /\ resp.actor.v.userId \in tasks[1].assignees
    /\ ~ActorOwns
    /\ ActorRoles = {"user"}
    /\ ~resp.canEdit
    /\ ~resp.canDelete

(***************************************************************************)
(* SpecSort: GET /tasks over every drawn store, with the sortBy and        *)
(* sortOrder strings a client may send                                     *)
(***************************************************************************)
SortByInputs == Opt({"title", "createdAt", "Title", "status"})

SortOrderInputs == Opt({"ASC", "DESC", "asc"})

SortQueries ==
    [search : {<< >>, <<"a">>},
     status : Opt({{"done"}}),
     assigneeId : {None},
     page : PageInputs, limit : Opt({1}),
     sortBy : SortByInputs, sortOrder : SortOrderInputs]

GetSorted ==
    /\ resp = NoResp
    /\ \E q \in SortQueries : GetTasks(Some(CHOOSE t \in Tokens : TRUE), q)
    /\ UNCHANGED inflight

NextSort == GetSorted

SpecSort == InitList /\ [][NextSort]_vars

\* The sort key of a returned task precedes or equals that of another.
ByTitle == resp.query.sortBy = Some("title")

Ascending == resp.query.sortOrder = Some("ASC")

SortKeyLeq(t, u) ==
    IF ByTitle THEN StrLeq(t.title, u.title) ELSE t.createdAt <= u.createdAt

ComesBefore(t, u) == IF Ascending THEN SortKeyLeq(t, u) ELSE SortKeyLeq(u, t)

SelectedIds == {row.id : row \in Selected(resp.query)}

\* C22: the selected tasks are sorted before they are sliced, by title when
\* sortBy is exactly "title" and by createdAt otherwise, ascending when
\* sortOrder is exactly "ASC" and descending otherwise: consecutive tasks
\* of the page are in that order, at most (page-1)*limit selected tasks
\* come strictly before the first task of the page, and the selected tasks
\* that come strictly after its last task fit behind the page.
C22_SortedBeforeSlice ==
    Listed =>
        LET page == resp.tasks
            first == (resp.page - 1) * resp.limit
        IN  /\ \A k \in 1 .. (Len(page) - 1) : ComesBefore(page[k], page[k + 1])
            /\ page # << >> =>
                 /\ Cardinality({i \in SelectedIds :
                        ~ComesBefore(page[1], tasks[i])}) <= first
                 /\ Cardinality({i \in SelectedIds :
                        ~ComesBefore(tasks[i], page[Len(page)])})
                      <= resp.total - first - Len(page)

\* Two tasks whose titles run against their creation order, under an unknown
\* sortBy and a lower-case sortOrder: the second page of one task holds the
\* task created first.
C22_Witness ==
    /\ Listed
    /\ Len(resp.tasks) = 1
    /\ resp.total = 2
    /\ resp.page = 2
    /\ resp.query.sortOrder = Some("asc")
    /\ resp.query.sortBy = Some("Title")
    /\ resp.tasks[1].createdAt = 1
    /\ tasks[1].title = <<"b", "a">>
    /\ tasks[2].title = <<"b">>

(***************************************************************************)
(* SpecPaging: GET /tasks with page and limit of either sign               *)
(***************************************************************************)
PagingInputs == Opt((0 - 1) .. MaxPage)

PagingQueries ==
    [search : {<< >>, <<"a">>},
     status : {None}, assigneeId : {None},
     page : PagingInputs, limit : PagingInputs,
     sortBy : {None}, sortOrder : Opt({"ASC"})]

GetPaged ==
    /\ resp = NoResp
    /\ \E q \in PagingQueries : GetTasks(Some(CHOOSE t \in Tokens : TRUE), q)
    /\ UNCHANGED inflight

NextPaging == GetPaged \/ GetUnauthenticated

SpecPaging == InitList /\ [][NextPaging]_vars

ListReached == resp.op = "list" /\ resp.code # 401

ParsedPage == IF resp.query.page.some THEN resp.query.page.v ELSE 1

ParsedLimit == IF resp.query.limit.some THEN resp.query.limit.v ELSE 10

\* C23 as stated: whatever integers page and limit are, the store is handed
\* the offset (page-1)*limit and the page size limit, and the response
\* carries page and limit as parsed.
C23_EchoedWhatever ==
    ListReached =>
        /\ resp.skip = (ParsedPage - 1) * ParsedLimit
        /\ resp.take = ParsedLimit
        /\ resp.code = 200
        /\ resp.page = ParsedPage
        /\ resp.limit = ParsedLimit

\* C23 (amended): whatever integers page and limit are, the store is handed
\* the offset (page-1)*limit and the page size limit, unclamped; the answer
\* is 200 with page and limit as parsed, or 500 when the store refuses a
\* negative offset or page size, and 500 in no other case.
C23_NoClamping ==
    ListReached =>
        /\ resp.skip = (ParsedPage - 1) * ParsedLimit
        /\ resp.take = ParsedLimit
        /\ resp.code \in {200, 500}
        /\ resp.code = 200 => (resp.page = ParsedPage /\ resp.limit = ParsedLimit)
        /\ resp.code = 500 => (resp.skip < 0 \/ resp.take < 0)

C23_Witness ==
    /\ ListReached
    /\ resp.query.page = Some(0)
    /\ resp.query.limit = Some(2)
    /\ resp.skip = 0 - 2
    /\ resp.take = 2
    /\ resp.code = 200
    /\ resp.page = 0

(***************************************************************************)
(* SpecRace: PUT and DELETE requests that overlap on a stored task         *)
(***************************************************************************)
NextRace == Read \/ Write \/ Delete

SpecRace == InitConc /\ [][NextRace]_vars

\* C24: a task that has been removed stays absent: no step, and so no save
\* of an update that had read the task before the remove, brings it back
\* (SpecRace has no POST).
C24_RemovedStaysAbsent ==
    [][\A id \in TaskIds : ~tasks[id].exists => ~tasks'[id].exists]_vars

(***************************************************************************)
(* Claims about fields under overlapping updates (SpecConc)                *)
(***************************************************************************)
\* C25: when an update that sends only a title saves, and an update that
\* sends only a status and had read the task before that save saves next
\* and last, the stored task has the title of the first and the status of
\* the second.
C25_NoStaleFieldRestored ==
    \A r1, r2 \in Requests :
        (/\ inflight[r1].code = 200
         /\ inflight[r2].code = 200
         /\ inflight[r1].id = inflight[r2].id
         /\ inflight[r2].savedAt = SavesSoFar
         /\ inflight[r1].savedAt = SavesSoFar - 1
         /\ inflight[r1].body.title.some
         /\ ~inflight[r1].body.status.some
         /\ inflight[r2].body.status.some
         /\ ~inflight[r2].body.title.some
         /\ inflight[r2].loaded.title # inflight[r1].body.title.v)
        => /\ tasks[inflight[r2].id].title = inflight[r1].body.title.v
           /\ tasks[inflight[r2].id].status = inflight[r2].body.status.v

(***************************************************************************)
(* SpecPaths: GET /tasks with a search string that every drawn title       *)
(* contains, against the same request without search                      *)
(***************************************************************************)
MatchAllSearch == <<"b">>

PathQueries ==
    [search : {MatchAllSearch},
     status : Opt({{"done"}, {"todo", "in_progress"}}),
     assigneeId : Opt({"u3"}),
     page : PageInputs, limit : LimitInputs,
     sortBy : Opt({"title"}), sortOrder : Opt({"ASC"})]

GetSearching ==
    /\ resp = NoResp
    /\ \E q \in PathQueries : GetTasks(Some(CHOOSE t \in Tokens : TRUE), q)
    /\ UNCHANGED inflight

NextPaths == GetSearching

SpecPaths == InitList /\ [][NextPaths]_vars

EveryTaskMatches(search) ==
    \A i \in ExistingIds : Like(searchTerm(search), tasks[i].title)

\* C26: a list request whose search string every task matches is answered
\* as the same request without search is: the same total and totalPages,
\* and a task sequence that the search-absent path returns for the same
\* status, assigneeId, sortBy, sortOrder, page and limit.
C26_PathsAgree ==
    (Listed /\ resp.query.search # << >> /\ EveryTaskMatches(resp.query.search))
    => LET q0 == [resp.query EXCEPT !.search = << >>]
           selected == Selected(q0)
       IN  /\ resp.total = countQuery(selected)
           /\ resp.totalPages = totalPages(countQuery(selected), limitNum(q0))
           /\ \E sorted \in Orderings({row.id : row \in selected}, q0) :
                  \E ids \in pages(sorted, q0) :
                      resp.tasks = [k \in DOMAIN ids |->
                                       loadEntity(ids[k], selected)]

(***************************************************************************)
(* Claims about the tasks in a list response (SpecList)                    *)
(***************************************************************************)
\* C27: every task of a list response carries the whole assignee set that
\* the store holds for it, whatever filters the request has.
C27_AssigneesComplete ==
    Listed =>
        \A k \in DOMAIN resp.tasks :
            resp.tasks[k].assignees = tasks[resp.tasks[k].id].assignees

====
